---- MODULE Spec2Model ----
(***************************************************************************)
(* A model of src/gui/src/services/ThemeService.js (Puter GUI).            *)
(*                                                                         *)
(* Numbers are fixed point:                                                *)
(*   hue          whole degrees                      (210    is 210)       *)
(*   sat, lig     hundredths of a percent            (4118   is 41.18)     *)
(*   alpha        hundredths                         (80     is 0.8)       *)
(*   luminance    ten-thousandths                    (10000  is 1.0)       *)
(* A JavaScript object is a function from its keys to their values; a key  *)
(* that is absent reads as undefined. The numbers of a descriptor are not   *)
(* negative, and a BigInt b, on which the arithmetic of the sidebar colour *)
(* and JSON.stringify throw a TypeError, is held as -1 - b.                *)
(*                                                                         *)
(* The colour math is exact: where the exact value of a channel lies half  *)
(* way between two integers, Math.round of the double the code computes    *)
(* can be the lower one (0.9 * 30 + 25.5 is 52.49999999999999 in doubles). *)
(* On the descriptors of this model the text colours agree with the code.  *)
(***************************************************************************)
EXTENDS Integers, Sequences, FiniteSets, TLC

(***************************************************************************)
(* Bounds of the model.                                                    *)
(***************************************************************************)
\* calls of apply and reset in one run
MaxCalls == 3

\* the colour functions are applied to the channels that are multiples of
\* this, and to 1, 254 and 255
ChannelStep == 17

(***************************************************************************)
(* JavaScript values and objects.                                          *)
(***************************************************************************)
undefined == [t |-> "undefined"]

V(x) == [t |-> "value", v |-> x]

Fields == {"sat", "hue", "lig", "alpha", "light_text"}

NoFields == [k \in {} |-> 0]

\* obj[key], undefined when the key is absent
Prop(obj, key) == IF key \in DOMAIN obj THEN V(obj[key]) ELSE undefined

\* { ...a, ...b }
Spread(a, b) ==
    [k \in (DOMAIN a) \cup (DOMAIN b) |-> IF k \in DOMAIN b THEN b[k] ELSE a[k]]

default_values ==
    [sat |-> 4118, hue |-> 210, lig |-> 9333, alpha |-> 80, light_text |-> FALSE]

\* the BigInt b (10n is BigInt(10))
BigInt(b) == -1 - b

\* the fields of `s` that hold a BigInt, among those arithmetic is done on
bigIntFields(s) == {k \in {"hue", "sat", "lig", "alpha"} \cap DOMAIN s : s[k] < 0}

(***************************************************************************)
(* Colour math.                                                            *)
(***************************************************************************)
\* Math.round(x * 255) for x = (base + A * m / 60) / 10^8, computed in two
\* limbs of 10^4 so that no intermediate leaves 32 bits:
\* floor((1020 * base + 17 * m * A + 2 * 10^8) / (4 * 10^8)).
Round255(base, A, m) ==
    LET hi == 1020 * (base \div 10000) + 17 * m * (A \div 10000) + 20000
        lo == 1020 * (base % 10000) + 17 * m * (A % 10000)
    IN  (hi + (lo \div 10000)) \div 40000

\* The helper of hslToRgb; td is t in degrees (t * 360), p and q in 10^-8.
hue2rgb(p, q, td) ==
    LET t1 == IF td < 0 THEN td + 360 ELSE td
        t2 == IF t1 > 360 THEN t1 - 360 ELSE t1
    IN  IF t2 < 60 THEN Round255(p, q - p, t2)
        ELSE IF t2 < 180 THEN Round255(q, 0, 0)
        ELSE IF t2 < 240 THEN Round255(p, q - p, 240 - t2)
        ELSE Round255(p, 0, 0)

hslToRgb(h, s, l) ==
    IF s = 0
    THEN LET c == Round255(l * 10000, 0, 0) IN <<c, c, c>>
    ELSE LET q == IF l < 5000 THEN l * (10000 + s) ELSE (l + s) * 10000 - l * s
             p == 2 * l * 10000 - q
         IN  <<hue2rgb(p, q, h + 120), hue2rgb(p, q, h), hue2rgb(p, q, h - 120)>>

\* val <= 0.03928 ? val / 12.92 : Math.pow((val + 0.055) / 1.055, 2.4), for
\* val = c / 255, c = 0 .. 255, in units of 10^-5.
Linear ==
    << 0, 30, 61, 91, 121, 152, 182, 212, 243, 273, 304, 335,
       368, 402, 439, 478, 518, 561, 605, 651, 700, 750, 802, 857,
       913, 972, 1033, 1096, 1161, 1229, 1298, 1370, 1444, 1521, 1600, 1681,
       1764, 1850, 1938, 2029, 2122, 2217, 2315, 2416, 2519, 2624, 2732, 2843,
       2956, 3071, 3190, 3310, 3434, 3560, 3689, 3820, 3955, 4092, 4231, 4374,
       4519, 4667, 4817, 4971, 5127, 5286, 5448, 5613, 5781, 5951, 6125, 6301,
       6480, 6663, 6848, 7036, 7227, 7421, 7619, 7819, 8022, 8228, 8438, 8650,
       8866, 9084, 9306, 9531, 9759, 9990, 10224, 10462, 10702, 10946, 11193, 11444,
       11697, 11954, 12214, 12477, 12744, 13014, 13287, 13563, 13843, 14126, 14413, 14703,
       14996, 15293, 15593, 15896, 16203, 16513, 16827, 17144, 17465, 17789, 18116, 18447,
       18782, 19120, 19462, 19807, 20156, 20508, 20864, 21223, 21586, 21953, 22323, 22697,
       23074, 23455, 23840, 24228, 24620, 25016, 25415, 25818, 26225, 26636, 27050, 27468,
       27889, 28315, 28744, 29177, 29614, 30054, 30499, 30947, 31399, 31855, 32314, 32778,
       33245, 33716, 34191, 34670, 35153, 35640, 36131, 36625, 37124, 37626, 38133, 38643,
       39157, 39676, 40198, 40724, 41254, 41789, 42327, 42869, 43415, 43966, 44520, 45079,
       45641, 46208, 46778, 47353, 47932, 48515, 49102, 49693, 50289, 50888, 51492, 52100,
       52712, 53328, 53948, 54572, 55201, 55834, 56471, 57112, 57758, 58408, 59062, 59720,
       60383, 61050, 61721, 62396, 63076, 63760, 64448, 65141, 65837, 66539, 67244, 67954,
       68669, 69387, 70110, 70838, 71569, 72306, 73046, 73791, 74540, 75294, 76052, 76815,
       77582, 78354, 79130, 79910, 80695, 81485, 82279, 83077, 83880, 84687, 85499, 86316,
       87137, 87962, 88792, 89627, 90466, 91310, 92158, 93011, 93869, 94731, 95597, 96469,
       97345, 98225, 99110, 100000 >>

\* 0.2126 * r + 0.7152 * g + 0.0722 * b, in units of 10^-4
getLuminance(rgb) ==
    (2126 * Linear[rgb[1] + 1] + 7152 * Linear[rgb[2] + 1]
        + 722 * Linear[rgb[3] + 1]) \div 100000

\* (lighter + 0.05) / (darker + 0.05), as the pair <<numerator, denominator>>
getContrastRatio(rgb1, rgb2) ==
    LET l1 == getLuminance(rgb1)
        l2 == getLuminance(rgb2)
        lighter == IF l1 >= l2 THEN l1 ELSE l2
        darker == IF l1 >= l2 THEN l2 ELSE l1
    IN  <<lighter + 500, darker + 500>>

\* a >= b for two ratios
RatioGeq(a, b) == a[1] * b[2] >= b[1] * a[2]

\* blendWithWhite with Math.floor in place of Math.round
blendWithWhite_Floor(rgb, alpha) ==
    [i \in 1..3 |-> (rgb[i] * (100 + alpha) + 255 * (100 - alpha)) \div 200]

\* effectiveAlpha = 0.5 + 0.5 * alpha = (100 + alpha) / 200;
\* Math.round(c * effectiveAlpha + 255 * (1 - effectiveAlpha))
blendWithWhite(rgb, alpha) ==
    [i \in 1..3 |-> (rgb[i] * (100 + alpha) + 255 * (100 - alpha) + 100) \div 200]

\* getOptimalTextColor that asks whether the background is lighter than 0.5
getOptimalTextColor_ByLuminance(backgroundColor) ==
    IF getLuminance(backgroundColor) >= 5000 THEN "#000000" ELSE "#ffffff"

getOptimalTextColor(backgroundColor) ==
    LET black == <<0, 0, 0>>
        white == <<255, 255, 255>>
        blackContrast == getContrastRatio(black, backgroundColor)
        whiteContrast == getContrastRatio(white, backgroundColor)
    IN  IF RatioGeq(blackContrast, whiteContrast) THEN "#000000" ELSE "#ffffff"

(***************************************************************************)
(* Text of the persisted record, JSON.parse and JSON.stringify.            *)
(* A text is "" (blank), text that is no JSON (junk) or the serialisation  *)
(* of a JSON value; a JSON value is an object, a number or null.           *)
(***************************************************************************)
Absent == [k |-> "absent"]

BlankText == [k |-> "blank"]

JunkText == [k |-> "junk"]

JsonText(v) == [k |-> "json", v |-> v]

JsonObject(o) == [t |-> "object", o |-> o]

JsonNumber(n) == [t |-> "number", n |-> n]

\* JSON.stringify(value, undefined, 5) of an object whose values are defined
stringify(o) == JsonText(JsonObject(o))

\* JSON.stringify({ colors: s }) throws a TypeError when a value is a BigInt
stringifyThrows(s) == bigIntFields(s) # {}

\* JSON.parse(text) throws on "" and on text that is no JSON
parseThrows(text) == text.k # "json"

parse(text) == text.v

\* data.toString(): a string is itself, a Blob is "[object Blob]"
toString(d) == IF d.t = "string" THEN d.s ELSE JunkText

\* the truthiness of init's local `data` and of data.colors
truthy(d) ==
    CASE d.t = "undefined" -> FALSE
      [] d.t = "null" -> FALSE
      [] d.t = "string" -> d.s.k # "blank"
      [] d.t = "number" -> d.n # 0
      [] OTHER -> TRUE

\* data.colors
colorsOf(d) ==
    IF d.t = "object" /\ "colors" \in DOMAIN d.o THEN d.o.colors ELSE undefined

\* the own enumerable properties `...x` copies
ownProps(x) == IF x.t = "object" THEN x.o ELSE NoFields

(***************************************************************************)
(* The inputs of the model.                                                *)
(***************************************************************************)
\* the `values` passed to apply
Updates ==
    { NoFields,
      [hue |-> 120],
      [hue |-> 300, alpha |-> 0, light_text |-> TRUE] }

\* what the persisted record holds when the page loads
InitialFiles ==
    { Absent,
      BlankText,
      JunkText,
      JsonText(JsonObject([hue |-> 120, alpha |-> 0])),
      JsonText(JsonObject([colors |-> JsonNumber(5)])),
      JsonText(JsonObject([colors |-> JsonObject([hue |-> 300, sat |-> 0, lig |-> 2000])])) }

(***************************************************************************)
(* The state.                                                              *)
(***************************************************************************)
VARIABLES
    state,            \* this.state
    aliased,          \* this.state is the object default_values names
    defaults,         \* the object default_values names, as it is now
    save_cooldown_,   \* this.save_cooldown_: 0 is undefined, else a timer handle
    timers,           \* the handles of the timeouts the host has pending
    nextTimer,        \* the handle the next setTimeout returns
    pc,               \* where _init is: "idle", "read", "text", "done"
    data,             \* _init's local `data`
    surface,          \* the style properties of :root
    broadcast,        \* the payload of the last themeChanged broadcast
    alerts,           \* how many times UIAlert was called
    file,             \* the content of ~/.__puter_gui.json in the store
    pending,          \* the puter.fs requests issued and not yet settled
    hist              \* history: what the last step did, and the run so far

prog == <<state, aliased, defaults, save_cooldown_, timers, nextTimer, pc, data,
          surface, broadcast, alerts>>

vars == <<state, aliased, defaults, save_cooldown_, timers, nextTimer, pc, data,
          surface, broadcast, alerts, file, pending, hist>>

\* get (key) { return this.state[key]; }
get(key) == Prop(state, key)

(***************************************************************************)
(* reload_: the render pass.                                               *)
(***************************************************************************)
\* a number written to a style property or a payload; unit is "" or "%"
Css(s, key, unit) ==
    IF key \in DOMAIN s THEN [t |-> "number", n |-> s[key], unit |-> unit]
    ELSE [t |-> "undefined", unit |-> unit]

\* s.light_text ? 'white' : '#373e44'
primaryColor(s) ==
    IF "light_text" \in DOMAIN s /\ s["light_text"] THEN "white" ELSE "#373e44"

\* The sidebar pipeline: hslToRgb, blendWithWhite, getOptimalTextColor, each
\* stage evaluated once. A field that is undefined makes every channel NaN,
\* and NaN >= NaN is false, which selects '#ffffff'.
sidebarTextColor(s) ==
    IF {"sat", "lig", "alpha"} \subseteq DOMAIN s /\ (s["sat"] = 0 \/ "hue" \in DOMAIN s)
    THEN LET sidebarRgb ==
                 {hslToRgb(IF s["sat"] = 0 THEN 0 ELSE s["hue"], s["sat"], s["lig"])}
             blendedSidebarRgb == {blendWithWhite(rgb, s["alpha"]) : rgb \in sidebarRgb}
         IN  CHOOSE c \in {getOptimalTextColor(rgb) : rgb \in blendedSidebarRgb} : TRUE
    ELSE "#ffffff"

\* h / 360, s / 100, l / 100 in hslToRgb and 0.5 * alpha in blendWithWhite
\* throw a TypeError on a BigInt; the catch block of reload_ logs it
sidebarThrows(s) == bigIntFields(s) # {}

\* the two sidebar properties reload_ sets from one computed colour
sidebarStyle(c) ==
    [window_sidebar_title_color |-> c, window_sidebar_item_color |-> c]

\* the properties reload_ sets on :root: the sidebar properties are not set
\* when the try block throws before it reaches them
rootStyle(s) ==
    [primary_hue |-> Css(s, "hue", ""),
     primary_saturation |-> Css(s, "sat", "%"),
     primary_lightness |-> Css(s, "lig", "%"),
     primary_alpha |-> Css(s, "alpha", ""),
     primary_color |-> primaryColor(s)]
        @@ (IF sidebarThrows(s) THEN NoFields
            ELSE CHOOSE side \in {sidebarStyle(c) : c \in {sidebarTextColor(s)}} : TRUE)

\* the palette reload_ broadcasts
palette(s) ==
    [primaryHue |-> Css(s, "hue", ""),
     primarySaturation |-> Css(s, "sat", "%"),
     primaryLightness |-> Css(s, "lig", "%"),
     primaryAlpha |-> Css(s, "alpha", ""),
     primaryColor |-> primaryColor(s)]

\* reload_ that broadcasts the palette of the defaults
reload_BroadcastsDefaults(s) ==
    [surface |-> rootStyle(s),
     broadcast |-> [palette |-> palette(default_values), sendToNewAppInstances |-> TRUE],
     events |-> <<"render", "broadcast">>]

\* reload_ without its try block: the TypeError ends the pass before the broadcast
reload_NoCatch(s) ==
    IF sidebarThrows(s)
    THEN [surface |-> rootStyle(s), broadcast |-> [t |-> "none"], events |-> <<"render">>]
    ELSE [surface |-> rootStyle(s),
          broadcast |-> [palette |-> palette(s), sendToNewAppInstances |-> TRUE],
          events |-> <<"render", "broadcast">>]

\* reload_ with this.state = s: the properties set, the broadcast and the events
reload_(s) ==
    [surface |-> rootStyle(s),
     broadcast |-> [palette |-> palette(s), sendToNewAppInstances |-> TRUE],
     events |-> <<"render", "broadcast">>]

Unset == [t |-> "unset"]

NoStyle ==
    [primary_hue |-> Unset, primary_saturation |-> Unset, primary_lightness |-> Unset,
     primary_alpha |-> Unset, primary_color |-> "", window_sidebar_title_color |-> "",
     window_sidebar_item_color |-> ""]

(***************************************************************************)
(* save_ and commit_save_: the debounced persist.                          *)
(***************************************************************************)
\* save_ without its clearTimeout
save_NoClear(cooldown, pend, handle) ==
    [timers |-> pend \cup {handle},
     save_cooldown_ |-> handle,
     events |-> <<"setTimeout">>]

\* save_ that keeps the first handle in this.save_cooldown_
save_KeepsHandle(cooldown, pend, handle) ==
    [timers |-> (IF cooldown # 0 THEN pend \ {cooldown} ELSE pend) \cup {handle},
     save_cooldown_ |-> IF cooldown # 0 THEN cooldown ELSE handle,
     events |-> (IF cooldown # 0 THEN <<"clearTimeout">> ELSE <<>>) \o <<"setTimeout">>]

\* save_: clears the pending timeout, if any, and starts a new one
save_(cooldown, pend, handle) ==
    [timers |-> (IF cooldown # 0 THEN pend \ {cooldown} ELSE pend) \cup {handle},
     save_cooldown_ |-> handle,
     events |-> (IF cooldown # 0 THEN <<"clearTimeout">> ELSE <<>>) \o <<"setTimeout">>]

\* commit_save_ that writes the descriptor itself: JSON.stringify(this.state)
commit_save_Bare(s) == [op |-> "write", body |-> stringify(s)]

\* commit_save_: the request it issues
commit_save_(s) == [op |-> "write", body |-> stringify([colors |-> JsonObject(s)])]

(***************************************************************************)
(* History. `last`, `pre`, `arg` and `out` describe the last step: its     *)
(* name, this.state before it, the values passed to apply, and the calls   *)
(* it made on its collaborators, in order. The rest describes the run.     *)
(***************************************************************************)
NoBurst == [n |-> 0, d |-> NoFields, pure |-> TRUE, writes |-> 0]

NoHistory ==
    [last |-> "none", pre |-> NoFields, arg |-> NoFields, out |-> <<>>,
     calls |-> 0,                 \* calls of apply and reset so far
     resets |-> 0,               \* calls of reset so far
     rejected |-> FALSE,         \* the store has rejected a request
     initRenders |-> 0,          \* render passes made by _init
     initApplied |-> FALSE,      \* apply ran while _init was suspended
     readError |-> "none",       \* how the read of _init failed, if it did
     found |-> Absent,           \* the text _init got from the store, if any
     burst |-> NoBurst,          \* the applies since no timeout was pending
     lastWrite |-> Absent,       \* the body of the last write issued
     resetSinceApply |-> FALSE,  \* reset ran and no apply since
     fired |-> 0,                \* the handle of the last timeout that expired
     applyTimer |-> 0]           \* the handle the last apply got from setTimeout

Step(name, a, ev) ==
    [hist EXCEPT !.last = name, !.pre = state, !.arg = a, !.out = ev]

Count(ev, e) == Cardinality({i \in DOMAIN ev : ev[i] = e})

(***************************************************************************)
(* _init.                                                                  *)
(***************************************************************************)
\* the literal _init assigns to this.state
initial_state ==
    [sat |-> 4118, hue |-> 210, lig |-> 9333, alpha |-> 80, light_text |-> FALSE]

\* _init up to its first await: the read is issued
InitStart ==
    /\ pc = "idle"
    /\ state' = initial_state
    /\ aliased' = FALSE
    /\ save_cooldown_' = 0
    /\ data' = undefined
    /\ pc' = "read"
    /\ hist' = Step("_init", NoFields, <<"read">>)
    /\ UNCHANGED <<defaults, timers, nextTimer, surface, broadcast, alerts, file, pending>>

\* if ( data ) try { data = JSON.parse(data.toString()) } catch { data = undefined; UIAlert }
parsed(d) ==
    IF ~truthy(d) THEN [data |-> d, threw |-> FALSE]
    ELSE IF parseThrows(toString(d)) THEN [data |-> undefined, threw |-> TRUE]
    ELSE [data |-> parse(toString(d)), threw |-> FALSE]

\* the merge with its operands swapped: { ...data.colors, ...this.state }
initMerge_StateWins(s, d) ==
    IF truthy(d) /\ truthy(colorsOf(d)) THEN Spread(ownProps(colorsOf(d)), s) ELSE s

\* if ( data && data.colors ) this.state = { ...this.state, ...data.colors }
initMerge(s, d) ==
    IF truthy(d) /\ truthy(colorsOf(d)) THEN Spread(s, ownProps(colorsOf(d))) ELSE s

\* _init that renders only when the persisted record changed the state
initReload_IfChanged(s) == IF s = initial_state THEN <<>> ELSE <<reload_(s)>>

\* the render passes at the end of _init
initReload(s) == <<reload_(s)>>

\* _init from its last await to its end, `d` being `data` after the try block
InitTail(d, err, text) ==
    \E p \in {parsed(d)} :
    \E merged \in {initMerge(state, p.data)} :
    \E passes \in {initReload(merged)} :
    \E ev \in {(IF p.threw THEN <<"alert">> ELSE <<>>)
                \o (IF Len(passes) > 0 THEN passes[1].events ELSE <<>>)} :
        /\ data' = p.data
        /\ alerts' = alerts + (IF p.threw THEN 1 ELSE 0)
        /\ state' = merged
        /\ aliased' = (aliased /\ ~(truthy(p.data) /\ truthy(colorsOf(p.data))))
        /\ surface' = IF Len(passes) > 0 THEN passes[1].surface @@ surface ELSE surface
        /\ broadcast' = IF Len(passes) > 0 THEN passes[1].broadcast ELSE broadcast
        /\ pc' = "done"
        /\ hist' = [Step("init_end", NoFields, ev) EXCEPT
                        !.initRenders = Count(ev, "render"),
                        !.readError = err,
                        !.found = text,
                        !.burst.pure = FALSE]
        /\ UNCHANGED <<defaults, save_cooldown_, timers, nextTimer, file, pending>>

\* puter.fs.read rejects: the record does not exist, or any other failure
ReadRejects(code) ==
    /\ pc = "read"
    /\ code = "subject_does_not_exist" => file = Absent
    /\ InitTail(undefined, code, Absent)

\* puter.fs.read resolves with a string
ReadResolvesString ==
    /\ pc = "read"
    /\ file # Absent
    /\ InitTail([t |-> "string", s |-> file], "none", file)

\* puter.fs.read resolves with a Blob: _init awaits data.text()
ReadResolvesBlob ==
    /\ pc = "read"
    /\ file # Absent
    /\ data' = [t |-> "blob", text |-> file]
    /\ pc' = "text"
    /\ hist' = Step("blob", NoFields, <<"text">>)
    /\ UNCHANGED <<state, aliased, defaults, save_cooldown_, timers, nextTimer,
                   surface, broadcast, alerts, file, pending>>

\* data.text() resolves
TextResolves ==
    /\ pc = "text"
    /\ InitTail([t |-> "string", s |-> data.text], "none", data.text)

\* data.text() rejects: the catch block logs it and `data` is still the Blob
TextRejects ==
    /\ pc = "text"
    /\ InitTail(data, "text", data.text)

(***************************************************************************)
(* reset, apply, the timeout and the store. The service is used once _init *)
(* has been called: before it this.root is undefined and reload_ throws.   *)
(* A call made while _init is suspended on an await runs in between.       *)
(***************************************************************************)
\* reset that persists the defaults instead of deleting the record
reset_request_Writes == commit_save_(default_values)

\* puter.fs.delete(PUTER_THEME_DATA_FILENAME)
reset_request == [op |-> "delete"]

reset ==
    /\ pc # "idle"
    /\ hist.calls < MaxCalls
    /\ \E r \in {reload_(defaults)} :
           /\ state' = defaults
           /\ aliased' = TRUE
           /\ surface' = r.surface @@ surface
           /\ broadcast' = r.broadcast
           /\ pending' = Append(pending, reset_request)
           /\ hist' = [Step("reset", NoFields, r.events \o <<reset_request.op>>) EXCEPT
                           !.calls = @ + 1,
                           !.resets = @ + 1,
                           !.resetSinceApply = TRUE,
                           !.burst.pure = FALSE]
    /\ UNCHANGED <<defaults, save_cooldown_, timers, nextTimer, pc, data, alerts, file>>

\* apply that merges onto the defaults: { ...default_values, ...values }
applied_OntoDefaults(s, values) == Spread(default_values, values)

\* apply that replaces: this.state = values
applied_Replaces(s, values) == values

\* this.state = { ...this.state, ...values }
applied(s, values) == Spread(s, values)

\* apply that writes into the object this.state names:
\* Object.assign(this.state, values)
defaultsAfterApply_InPlace(defs, alias, values) ==
    IF alias THEN Spread(defs, values) ELSE defs

\* the object default_values names after apply: the spread builds a new
\* object for this.state and nothing is written to the one it named
defaultsAfterApply(defs, alias, values) == defs

apply(values) ==
    /\ pc # "idle"
    /\ hist.calls < MaxCalls
    /\ \E new \in {applied(state, values)} :
       \E r \in {reload_(new)}, sv \in {save_(save_cooldown_, timers, nextTimer)} :
           /\ state' = new
           /\ aliased' = FALSE
           /\ defaults' = defaultsAfterApply(defaults, aliased, values)
           /\ surface' = r.surface @@ surface
           /\ broadcast' = r.broadcast
           /\ timers' = sv.timers
           /\ save_cooldown_' = sv.save_cooldown_
           /\ nextTimer' = nextTimer + 1
           /\ hist' = [Step("apply", values, r.events \o sv.events) EXCEPT
                           !.calls = @ + 1,
                           !.initApplied = @ \/ pc # "done",
                           !.resetSinceApply = FALSE,
                           !.applyTimer = nextTimer,
                           !.burst = IF timers = {}
                                     THEN [n |-> 1, d |-> Spread(state, values),
                                           pure |-> TRUE, writes |-> 0]
                                     ELSE [@ EXCEPT !.n = @ + 1,
                                                    !.d = Spread(@, values)]]
    /\ UNCHANGED <<pc, data, alerts, file, pending>>

\* a timeout whose callback writes the descriptor its apply left
TimerFires_Snapshot(handle) ==
    /\ handle \in timers
    /\ timers' = timers \ {handle}
    /\ LET w == commit_save_(hist.burst.d)
       IN  /\ pending' = Append(pending, w)
           /\ hist' = [Step("timer", NoFields, <<w.op>>) EXCEPT
                           !.fired = handle,
                           !.lastWrite = w.body,
                           !.burst.writes = @ + 1]
    /\ UNCHANGED <<state, aliased, defaults, save_cooldown_, nextTimer, pc, data,
                   surface, broadcast, alerts, file>>

\* a pending timeout expires: commit_save_ issues the write, unless
\* JSON.stringify throws, which ends the callback
TimerFires(handle) ==
    /\ handle \in timers
    /\ timers' = timers \ {handle}
    /\ IF stringifyThrows(state)
       THEN /\ pending' = pending
            /\ hist' = [Step("timer", NoFields, <<"throw">>) EXCEPT !.fired = handle]
       ELSE LET w == commit_save_(state)
            IN  /\ pending' = Append(pending, w)
                /\ hist' = [Step("timer", NoFields, <<w.op>>) EXCEPT
                                !.fired = handle,
                                !.lastWrite = w.body,
                                !.burst.writes = @ + 1]
    /\ UNCHANGED <<state, aliased, defaults, save_cooldown_, nextTimer, pc, data,
                   surface, broadcast, alerts, file>>

\* a store request that is issued again when it is rejected
FsSettles_Retries(i, ok) ==
    /\ i \in DOMAIN pending
    /\ pending' = [j \in 1..(Len(pending) - (IF ok THEN 1 ELSE 0)) |->
                        IF j < i THEN pending[j]
                        ELSE IF j < Len(pending) THEN pending[j + 1]
                        ELSE pending[i]]
    /\ file' = IF ~ok THEN file
               ELSE IF pending[i].op = "write" THEN pending[i].body
               ELSE Absent
    /\ hist' = [Step("fs", NoFields, <<IF ok THEN "resolved" ELSE "rejected">>) EXCEPT
                    !.rejected = @ \/ ~ok]
    /\ UNCHANGED prog

\* the store settles the i-th request not yet settled; nothing awaits it
FsSettles(i, ok) ==
    /\ i \in DOMAIN pending
    /\ pending' = [j \in 1..(Len(pending) - 1) |->
                        IF j < i THEN pending[j] ELSE pending[j + 1]]
    /\ file' = IF ~ok THEN file
               ELSE IF pending[i].op = "write" THEN pending[i].body
               ELSE Absent
    /\ hist' = [Step("fs", NoFields, <<IF ok THEN "resolved" ELSE "rejected">>) EXCEPT
                    !.rejected = @ \/ ~ok]
    /\ UNCHANGED prog

(***************************************************************************)
(* The specification.                                                      *)
(***************************************************************************)
Init ==
    /\ state = NoFields
    /\ aliased = FALSE
    /\ defaults = default_values
    /\ save_cooldown_ = 0
    /\ timers = {}
    /\ nextTimer = 1
    /\ pc = "idle"
    /\ data = undefined
    /\ surface = NoStyle
    /\ broadcast = [t |-> "none"]
    /\ alerts = 0
    /\ file \in InitialFiles
    /\ pending = <<>>
    /\ hist = NoHistory

Next ==
    \/ InitStart
    \/ \E code \in {"subject_does_not_exist", "other"} : ReadRejects(code)
    \/ ReadResolvesString
    \/ ReadResolvesBlob
    \/ TextResolves
    \/ TextRejects
    \/ reset
    \/ \E values \in Updates : apply(values)
    \/ \E handle \in timers : TimerFires(handle)
    \/ \E i \in DOMAIN pending, ok \in BOOLEAN : FsSettles(i, ok)

Spec == Init /\ [][Next]_vars

\* the descriptors an earlier session of the page can have left in
\* this.state when its timeout expired: the defaults after up to two applies
PersistedDescriptors ==
    {applied(applied(default_values, u1), u2) : u1 \in Updates, u2 \in Updates}

\* the page loads with the record an earlier session's commit_save_ wrote
InitRestore ==
    /\ state = NoFields
    /\ aliased = FALSE
    /\ defaults = default_values
    /\ save_cooldown_ = 0
    /\ timers = {}
    /\ nextTimer = 1
    /\ pc = "idle"
    /\ data = undefined
    /\ surface = NoStyle
    /\ broadcast = [t |-> "none"]
    /\ alerts = 0
    /\ file \in {commit_save_(d).body : d \in PersistedDescriptors}
    /\ pending = <<>>
    /\ hist = NoHistory

SpecRestore == InitRestore /\ [][Next]_vars

\* `values` with a field of an unexpected shape: a BigInt alpha
ShapeUpdates == { [hue |-> 120], [alpha |-> BigInt(1)] }

InitShapes ==
    /\ state = NoFields
    /\ aliased = FALSE
    /\ defaults = default_values
    /\ save_cooldown_ = 0
    /\ timers = {}
    /\ nextTimer = 1
    /\ pc = "idle"
    /\ data = undefined
    /\ surface = NoStyle
    /\ broadcast = [t |-> "none"]
    /\ alerts = 0
    /\ file \in {Absent,
                 JsonText(JsonObject([colors |-> JsonObject([hue |-> 300, sat |-> 0, lig |-> 2000])]))}
    /\ pending = <<>>
    /\ hist = NoHistory

NextShapes ==
    \/ InitStart
    \/ \E code \in {"subject_does_not_exist", "other"} : ReadRejects(code)
    \/ ReadResolvesString
    \/ ReadResolvesBlob
    \/ TextResolves
    \/ TextRejects
    \/ reset
    \/ \E values \in ShapeUpdates : apply(values)
    \/ \E handle \in timers : TimerFires(handle)
    \/ \E i \in DOMAIN pending, ok \in BOOLEAN : FsSettles(i, ok)

SpecShapes == InitShapes /\ [][NextShapes]_vars

(***************************************************************************)
(* The colour functions on their own: a background colour is drawn, and    *)
(* one of the functions is called on it. `hist` holds the call: the name   *)
(* in `last`, the colour in `arg`, the other arguments and the value       *)
(* returned in `out`.                                                      *)
(***************************************************************************)
Channels == {c \in 0..255 : c % ChannelStep = 0} \cup {1, 254, 255}

Colors == {<<r, g, b>> : r \in Channels, g \in Channels, b \in Channels}

InitColor ==
    /\ state = NoFields
    /\ aliased = FALSE
    /\ defaults = default_values
    /\ save_cooldown_ = 0
    /\ timers = {}
    /\ nextTimer = 1
    /\ pc = "idle"
    /\ data = undefined
    /\ surface = NoStyle
    /\ broadcast = [t |-> "none"]
    /\ alerts = 0
    /\ file = Absent
    /\ pending = <<>>
    /\ hist \in {[NoHistory EXCEPT !.arg = rgb] : rgb \in Colors}

Call_getOptimalTextColor ==
    /\ hist.last = "none"
    /\ hist' = [hist EXCEPT !.last = "getOptimalTextColor",
                            !.out = [ret |-> getOptimalTextColor(hist.arg)]]
    /\ UNCHANGED <<prog, file, pending>>

Call_blendWithWhite(alpha) ==
    /\ hist.last = "none"
    /\ hist' = [hist EXCEPT !.last = "blendWithWhite",
                            !.out = [alpha |-> alpha, ret |-> blendWithWhite(hist.arg, alpha)]]
    /\ UNCHANGED <<prog, file, pending>>

NextColor ==
    \/ Call_getOptimalTextColor
    \/ \E alpha \in {0, 80, 100} : Call_blendWithWhite(alpha)

SpecColor == InitColor /\ [][NextColor]_vars

(***************************************************************************)
(* Claims.                                                                 *)
(***************************************************************************)
Defaults ==
    [sat |-> 4118, hue |-> 210, lig |-> 9333, alpha |-> 80, light_text |-> FALSE]

\* C1: a burst of applies, each made while the timeout of the previous one is
\* pending, after which nothing else runs, issues exactly one write once its
\* timeout has expired, and the write holds { colors: D }, D being the
\* descriptor the burst began with merged with every update in call order.
C1_Debounce ==
    (timers = {} /\ hist.burst.n >= 1 /\ hist.burst.pure)
        => /\ hist.burst.writes = 1
           /\ hist.lastWrite = stringify([colors |-> JsonObject(hist.burst.d)])

C1_Witness ==
    /\ hist.last = "timer"
    /\ hist.burst.n >= 2
    /\ hist.burst.pure
    /\ hist.burst.d["hue"] = 120
    /\ hist.burst.d["alpha"] = 0

\* C2: once reset has run and no apply since, no write is issued to the store.
C2_ResetCancelsPersist ==
    hist.resetSinceApply => Count(hist.out, "write") = 0

\* C3: at most one timeout is pending, it is the one this.save_cooldown_
\* names, and a timeout that expires is the one the last apply started.
C3_OneTimer ==
    /\ Cardinality(timers) <= 1
    /\ timers \subseteq {save_cooldown_}
    /\ hist.last = "timer" => hist.fired = hist.applyTimer

C3_Witness ==
    /\ hist.last = "timer"
    /\ hist.burst.n >= 2
    /\ hist.fired = 2

\* C4: reset leaves every field at its default, renders once with the
\* defaults and issues one delete, all in the step of the call.
C4_Reset ==
    hist.last = "reset"
        => /\ \A f \in Fields : get(f) = V(Defaults[f])
           /\ surface = rootStyle(Defaults)
           /\ hist.out = <<"render", "broadcast", "delete">>
           /\ Len(pending) >= 1
           /\ pending[Len(pending)] = [op |-> "delete"]

C4_Witness ==
    /\ hist.last = "reset"
    /\ hist.pre # Defaults
    /\ timers # {}

\* C5: after apply(values) every field named in values reads as given and
\* every other field reads as it did before the call.
C5_ApplyMerges ==
    hist.last = "apply"
        => \A f \in Fields :
              get(f) = IF f \in DOMAIN hist.arg THEN V(hist.arg[f])
                               ELSE Prop(hist.pre, f)

C5_Witness ==
    /\ hist.last = "apply"
    /\ hist.arg = [hue |-> 120]
    /\ Prop(hist.pre, "hue") = V(300)
    /\ get("alpha") = V(0)

\* C6: once _init has set this.state, every field is defined.
C6_AllFieldsDefined ==
    pc # "idle" => \A f \in Fields : get(f) # undefined

C6_Witness ==
    /\ hist.last = "init_end"
    /\ hist.initApplied
    /\ hist.calls >= 2
    /\ truthy(colorsOf(data))
    /\ state # Defaults

\* C7: when _init finds the record present and its content does not parse
\* (the empty content included), the descriptor is the defaults, UIAlert was
\* called once and the render pass ran with the defaults.
C7_MalformedAlerts ==
    (/\ hist.last = "init_end"
     /\ hist.readError = "none"
     /\ hist.found # Absent
     /\ parseThrows(hist.found)
     /\ ~hist.initApplied)
        => /\ state = Defaults
           /\ alerts = 1
           /\ Count(hist.out, "render") = 1
           /\ surface = rootStyle(Defaults)

\* C8: when the read of _init fails, with subject_does_not_exist or with
\* anything else, UIAlert is not called and the descriptor is the defaults.
C8_ReadFailureSilent ==
    (hist.last = "init_end" /\ hist.readError # "none")
        => /\ alerts = 0
           /\ ~hist.initApplied => state = Defaults

\* C9: _init makes exactly one render pass, at its end, with the descriptor
\* it leaves: when _init completes the style of :root is the one derived
\* from this.state, and the broadcast follows the render.
C9_InitRendersOnce ==
    /\ pc = "done" => hist.initRenders = 1
    /\ pc # "done" => hist.initRenders = 0
    /\ hist.last = "init_end"
          => /\ Count(hist.out, "render") = 1
             /\ Len(hist.out) >= 2
             /\ SubSeq(hist.out, Len(hist.out) - 1, Len(hist.out)) = <<"render", "broadcast">>
             /\ surface = rootStyle(state)
             /\ broadcast.palette = palette(state)

C9_Witness ==
    /\ hist.last = "init_end"
    /\ state = Defaults
    /\ hist.found = Absent
    /\ hist.readError = "subject_does_not_exist"

\* C10, as claimed: when the record parses to an object, taken as the
\* descriptor itself or through its `colors` member, every field it holds
\* has the persisted value after _init and every other field its default.
C10_Original ==
    (hist.last = "init_end" /\ data.t = "object" /\ ~hist.initApplied)
        => LET persisted == IF "colors" \in DOMAIN data.o
                            THEN ownProps(data.o.colors) ELSE data.o
           IN  \A f \in Fields :
                  get(f) = IF f \in DOMAIN persisted THEN V(persisted[f])
                                   ELSE V(Defaults[f])

\* C10, amended: when the record parses to an object with a `colors` member
\* that is an object, every field of `colors` has the persisted value after
\* _init and every other field the value it had just before the merge, which
\* is its default unless apply ran while _init was suspended; an object with
\* no `colors` member leaves the descriptor as it was.
C10_ColorsMerged ==
    (hist.last = "init_end" /\ data.t = "object")
        => /\ \A f \in Fields :
                 get(f) =
                    IF colorsOf(data).t = "object" /\ f \in DOMAIN colorsOf(data).o
                    THEN V(colorsOf(data).o[f])
                    ELSE Prop(hist.pre, f)
           /\ ~hist.initApplied => hist.pre = Defaults

C10_Witness ==
    /\ hist.last = "init_end"
    /\ colorsOf(data).t = "object"
    /\ hist.initApplied
    /\ Prop(hist.pre, "hue") = V(120)
    /\ get("hue") = V(300)
    /\ get("lig") = V(2000)
    /\ get("alpha") = V(80)

\* C11: when _init reads, without failure, a record that commit_save_ wrote
\* for a descriptor D, every field of this.state is the field of D once
\* _init has completed.
C11_RoundTrip ==
    (hist.last = "init_end" /\ hist.readError = "none")
        => \A d \in PersistedDescriptors :
              hist.found = commit_save_(d).body
                  => \A f \in Fields : get(f) = Prop(d, f)

C11_Witness ==
    /\ hist.last = "init_end"
    /\ hist.calls = 0
    /\ hist.readError = "none"
    /\ hist.found = commit_save_([sat |-> 4118, hue |-> 120, lig |-> 9333, alpha |-> 0,
                                  light_text |-> TRUE]).body
    /\ get("hue") = V(120)
    /\ get("alpha") = V(0)
    /\ get("light_text") = V(TRUE)

\* C12: a render pass whose sidebar colour computation throws still sets the
\* five primary properties from this.state and still sends the broadcast,
\* and the call goes on: apply starts its timeout, _init completes.
C12_SidebarFailureCaught ==
    (hist.last \in {"apply", "reset", "init_end"} /\ sidebarThrows(state))
        => /\ Count(hist.out, "render") = 1
           /\ Count(hist.out, "broadcast") = 1
           /\ surface.primary_hue = Css(state, "hue", "")
           /\ surface.primary_saturation = Css(state, "sat", "%")
           /\ surface.primary_lightness = Css(state, "lig", "%")
           /\ surface.primary_alpha = Css(state, "alpha", "")
           /\ surface.primary_color = primaryColor(state)
           /\ broadcast.palette = palette(state)
           /\ hist.last = "apply"
                 => /\ hist.out[Len(hist.out)] = "setTimeout"
                    /\ save_cooldown_ \in timers
           /\ hist.last = "init_end" => pc = "done"

C12_Witness ==
    /\ hist.last = "apply"
    /\ hist.arg = [alpha |-> BigInt(1)]
    /\ sidebarThrows(state)
    /\ surface.primary_alpha = [t |-> "number", n |-> BigInt(1), unit |-> ""]
    /\ surface.window_sidebar_title_color = "#000000"
    /\ broadcast.palette.primaryAlpha = surface.primary_alpha

\* C13: the step of _init's end, of apply and of reset makes one render pass
\* and sends one broadcast, after the pass; and once any of them has
\* completed, the palette last broadcast is what the primary properties of
\* :root hold, which is what this.state gives.
C13_BroadcastMatches ==
    /\ hist.last \in {"apply", "reset", "init_end"}
          => /\ Count(hist.out, "render") = 1
             /\ Count(hist.out, "broadcast") = 1
             /\ \E i \in 1..(Len(hist.out) - 1) :
                    hist.out[i] = "render" /\ hist.out[i + 1] = "broadcast"
    /\ (pc = "done" \/ hist.calls > 0)
          => /\ broadcast.palette.primaryHue = surface.primary_hue
             /\ broadcast.palette.primarySaturation = surface.primary_saturation
             /\ broadcast.palette.primaryLightness = surface.primary_lightness
             /\ broadcast.palette.primaryAlpha = surface.primary_alpha
             /\ broadcast.palette.primaryColor = surface.primary_color
             /\ surface.primary_hue = [t |-> "number", n |-> state["hue"], unit |-> ""]
             /\ surface.primary_saturation = [t |-> "number", n |-> state["sat"], unit |-> "%"]
             /\ surface.primary_lightness = [t |-> "number", n |-> state["lig"], unit |-> "%"]
             /\ surface.primary_alpha = [t |-> "number", n |-> state["alpha"], unit |-> ""]
             /\ surface.primary_color = (IF state["light_text"] THEN "white" ELSE "#373e44")

C13_Witness ==
    /\ hist.last = "apply"
    /\ hist.arg = [hue |-> 300, alpha |-> 0, light_text |-> TRUE]
    /\ broadcast.palette.primaryHue = [t |-> "number", n |-> 300, unit |-> ""]
    /\ broadcast.palette.primaryColor = "white"
    /\ surface.primary_color = "white"
    /\ surface.primary_alpha = [t |-> "number", n |-> 0, unit |-> ""]

\* C14: the step in which the store rejects a write or a delete takes that
\* request off the requests in flight and issues none, and leaves
\* this.state, the timeout, the style of :root, the last broadcast, the
\* alerts and the record as they were.
C14_FireAndForget ==
    [][(hist'.last = "fs" /\ hist'.out = <<"rejected">>)
          => /\ UNCHANGED <<state, save_cooldown_, timers, nextTimer, surface,
                            broadcast, alerts, pc, file>>
             /\ Len(pending') = Len(pending) - 1
             /\ \E i \in DOMAIN pending :
                    pending' = SubSeq(pending, 1, i - 1)
                                   \o SubSeq(pending, i + 1, Len(pending))]_vars

C14_Witness ==
    /\ hist.last = "fs"
    /\ hist.out = <<"rejected">>
    /\ hist.resets = 0
    /\ hist.lastWrite # Absent
    /\ file # hist.lastWrite
    /\ pending = <<>>
    /\ timers # {}
    /\ alerts = 0

C16_Original ==
    hist.last = "blendWithWhite"
        => /\ hist.out.alpha = 100 => hist.out.ret = hist.arg
           /\ hist.out.alpha = 0
                 => /\ \A i \in 1..3 : hist.out.ret[i] = (hist.arg[i] + 256) \div 2
                    /\ hist.out.ret = <<255, 255, 255>> => hist.arg = <<255, 255, 255>>

\* C16, amended: blendWithWhite(rgb, 1) is rgb, blendWithWhite(rgb, 0) is
\* round(c * 0.5 + 127.5) in each channel, and that is white exactly when
\* every channel of rgb is 254 or 255.
C16_BlendEnds ==
    hist.last = "blendWithWhite"
        => /\ hist.out.alpha = 100 => hist.out.ret = hist.arg
           /\ hist.out.alpha = 0
                 => /\ \A i \in 1..3 : hist.out.ret[i] = (hist.arg[i] + 256) \div 2
                    /\ hist.out.ret = <<255, 255, 255>>
                          <=> \A i \in 1..3 : hist.arg[i] >= 254

C16_Witness ==
    /\ hist.last = "blendWithWhite"
    /\ hist.out.alpha = 0
    /\ hist.arg = <<254, 255, 254>>
    /\ hist.out.ret = <<255, 255, 255>>

\* C17: when apply was called, each time after _init had completed, reset
\* was never called, no request was rejected, no timeout is pending and no
\* request is in flight, the record is { colors: this.state }.
C17_LastWriteWins ==
    (/\ hist.resets = 0
     /\ ~hist.rejected
     /\ hist.calls >= 1
     /\ ~hist.initApplied
     /\ pc = "done"
     /\ timers = {}
     /\ pending = <<>>)
        => file = stringify([colors |-> JsonObject(state)])

\* C18: when _init completes with a record whose `colors` is an object,
\* every field an apply changed while _init was suspended still has the
\* value applied.
C18_ApplyDuringInitKept ==
    (/\ hist.last = "init_end"
     /\ hist.initApplied
     /\ colorsOf(data).t = "object")
        => \A f \in Fields :
              Prop(hist.pre, f) # V(initial_state[f]) => get(f) = Prop(hist.pre, f)

\* C19: the write a timeout issues when it expires holds this.state as it
\* is at that moment.
C19_WritesStateAtExpiry ==
    hist.last = "timer"
        => /\ hist.out = <<"write">>
           /\ pending[Len(pending)] =
                  [op |-> "write", body |-> stringify([colors |-> JsonObject(state)])]
           /\ hist.lastWrite = stringify([colors |-> JsonObject(state)])

C19_Witness ==
    /\ hist.last = "timer"
    /\ hist.calls = 1
    /\ hist.initApplied
    /\ pc = "done"
    /\ hist.burst.d["hue"] = 120
    /\ state["hue"] = 300
    /\ hist.lastWrite.v.o.colors.o["hue"] = 300

\* C20: the object default_values names always holds the literal it was
\* created with, and reset leaves this.state with exactly those values.
C20_DefaultsIntact ==
    /\ defaults = [sat |-> 4118, hue |-> 210, lig |-> 9333, alpha |-> 80,
                   light_text |-> FALSE]
    /\ hist.last = "reset"
          => /\ aliased
             /\ state = [sat |-> 4118, hue |-> 210, lig |-> 9333, alpha |-> 80,
                         light_text |-> FALSE]

C20_Witness ==
    /\ hist.last = "reset"
    /\ hist.resets = 2
    /\ hist.calls = 3
    /\ hist.pre # Defaults
    /\ state = Defaults

====
